---- MODULE Spec2Model ----
(***************************************************************************)
(* Host side of the GPU radix sorter of src/src/gpu_rs.rs (GPURSSorter):   *)
(* the subgroup-width calibration of GPURSSorter::new, the size            *)
(* calculator, the buffer factory, the bind-group assembler and the pass   *)
(* recorder.  The compute kernels themselves live in                       *)
(* shaders/radix_sort.wgsl, which is not among the source files; where a   *)
(* property needs what a kernel does, the kernel is modelled from spec.md  *)
(* and marked as such.                                                     *)
(***************************************************************************)
EXTENDS Integers, Sequences, FiniteSets, TLC

(***************************************************************************)
(* Constants of gpu_rs.rs, lines 19-26.                                    *)
(***************************************************************************)
histogram_wg_size == 256

rs_radix_log2 == 8

rs_radix_size == 2 ^ rs_radix_log2

rs_keyval_size == 32 \div rs_radix_log2

rs_histogram_block_rows == 15

rs_scatter_block_rows == rs_histogram_block_rows

(***************************************************************************)
(* usize.  cur_size in GPURSSorter::new is a usize (it indexes a Vec).     *)
(* The largest usize of the build is 2^64 - 1 (2^32 - 1 on wasm32); TLC's  *)
(* integers end at 2^31 - 1, so the model's usize ends there.  The only    *)
(* use made of the value is that it is >= sizes.len().                     *)
(***************************************************************************)
usize_MAX == 2147483647

VARIABLES
    \* ---- the build and the device (environment of GPURSSorter::new)
    overflow_checks,  \* TRUE: integer overflow panics (debug profile); FALSE: it wraps (release)
    device,           \* width -> BOOLEAN: does a sorter built with this subgroup width sort the probe
    \* ---- GPURSSorter::new
    pc,               \* position in new: "loop", "probe", "match", "returned", "panicked"
    cur_size,         \* let mut cur_size
    s,                \* let mut s: "init", "increasing", "decreasing"
    sort_success,     \* let sort_success
    cur_sorter,       \* let mut cur_sorter: the sorter record
    probes,           \* history: the probes run so far, <<width, outcome>>, oldest first
    \* ---- the size calculator called on its own
    keysize_arg,      \* the argument of get_scatter_histogram_sizes
    sizes_ret,        \* what it returned (<<>> before the call)
    \* ---- the buffer factory and the bind-group assembler
    created,          \* how many buffers and bind groups the device has created so far
    keyvals,          \* the pair last returned by create_keyval_buffers (<<>>: none yet)
    internal_mem,     \* the buffer last returned by create_internal_mem_buffer
    bind_group,       \* the bind group last returned by create_bind_group
    \* ---- the pass recorder
    encoder,          \* the caller's command encoder: its compute passes, oldest first
    \* ---- the last call of the public interface, for the properties
    last,             \* [op, keysize, passes, a, b, ok]
    before,           \* [encoder, created, bind_group] as they were when it was made
    panic,            \* "" or the message of the panic that ended the process
    \* ---- a sort run on the device (test_sort)
    run,              \* [n, data, probe]: the key count, the keys to sort, is it the probe's compare
    tpc,              \* position in test_sort
    mem,              \* device memory: the two keyval buffers, the histograms, the uniform
    queue,            \* the submitted dispatches the device has not executed yet
    accesses,         \* history: [pipeline, reads, writes] of every scatter dispatch executed
    xfer,             \* history: the buffer uploaded to and the buffer read back
    sorted            \* let sorted: the keys read back

newvars == <<overflow_checks, device, pc, cur_size, s, sort_success, cur_sorter, probes>>

sizevars == <<keysize_arg, sizes_ret>>

bufvars == <<created, keyvals, internal_mem, bind_group>>

callvars == <<last, before, panic>>

gpuvars == <<run, tpc, mem, queue, accesses, xfer, sorted>>

vars == <<newvars, sizevars, bufvars, encoder, callvars, gpuvars>>

(***************************************************************************)
(* GPURSSorter::new, lines 54-82.                                          *)
(***************************************************************************)
\* let sizes = vec![1, 16, 32, 64, 128];  (indexed from 0 in the code)
sizes == <<1, 16, 32, 64, 128>>

sizes_len == Len(sizes)

sizes_at(i) == sizes[i + 1]

Widths == {sizes[k] : k \in 1..Len(sizes)}

\* new_with_sg_size: the sorter it returns.  The pipelines are named by their
\* entry points; subgroup_size is histogram_sg_size = sg_size as usize.
new_with_sg_size(sg_size) ==
    [ zero_p         |-> "zero_histograms",
      histogram_p    |-> "calculate_histogram",
      prefix_p       |-> "prefix_histogram",
      scatter_even_p |-> "scatter_even",
      scatter_odd_p  |-> "scatter_odd",
      subgroup_size  |-> sg_size ]

\* if cur_size < 0 || cur_size >= sizes.len(): cur_size is unsigned, so the
\* first disjunct is never true of it.
index_out_of_range(i) == (i < 0) \/ (i >= sizes_len)

\* cur_sorter.test_sort(device, queue) as GPURSSorter::new sees it: the device
\* decides whether the sorter built with this width sorts the probe.
probe_outcome(sorter) == device[sorter.subgroup_size]

\* cur_size -= 1 on a usize: at 0 it panics when overflow checks are on and
\* wraps to usize::MAX when they are off.
usize_decrement(i, checks) ==
    IF i >= 1 THEN [panic |-> FALSE, value |-> i - 1]
    ELSE IF checks THEN [panic |-> TRUE, value |-> i]
    ELSE [panic |-> FALSE, value |-> usize_MAX]

\* The three arms of `match s` (lines 68-78).  Each yields the next s, the
\* next cur_size and how the iteration ends: "continue" (loop again),
\* "break" (leave the loop with cur_sorter), "rollback" (rebuild the sorter
\* with sizes[cur_size - 1], then leave), "overflow" (the subtraction panics).
arm_init(ok, i, checks) ==
    IF ok THEN [s |-> "increasing", cur_size |-> i + 1, ctl |-> "continue"]
    ELSE LET d == usize_decrement(i, checks)
         IN  [s |-> "decreasing", cur_size |-> d.value,
              ctl |-> IF d.panic THEN "overflow" ELSE "continue"]

\* A variant that turns around on a failing probe and descends from the
\* width below.
arm_increasing_turn_back(ok, i, checks) ==
    IF ok THEN [s |-> "increasing", cur_size |-> i + 1, ctl |-> "continue"]
    ELSE [s |-> "decreasing", cur_size |-> i - 1, ctl |-> "continue"]

\* A variant that leaves the loop on a failing probe without going back one
\* width.
arm_increasing_no_rollback(ok, i, checks) ==
    IF ok THEN [s |-> "increasing", cur_size |-> i + 1, ctl |-> "continue"]
    ELSE [s |-> "increasing", cur_size |-> i, ctl |-> "break"]

arm_increasing(ok, i, checks) ==
    IF ok THEN [s |-> "increasing", cur_size |-> i + 1, ctl |-> "continue"]
    ELSE [s |-> "increasing", cur_size |-> i, ctl |-> "rollback"]

\* A variant that leaves the loop with the width just probed whatever the
\* probe said.
arm_decreasing_accepting(ok, i, checks) ==
    [s |-> "decreasing", cur_size |-> i, ctl |-> "break"]

\* A variant that settles for the smallest width once the ladder is used up.
arm_decreasing_clamped(ok, i, checks) ==
    IF ok \/ i = 0 THEN [s |-> "decreasing", cur_size |-> i, ctl |-> "break"]
    ELSE [s |-> "decreasing", cur_size |-> i - 1, ctl |-> "continue"]

arm_decreasing(ok, i, checks) ==
    IF ok THEN [s |-> "decreasing", cur_size |-> i, ctl |-> "break"]
    ELSE LET d == usize_decrement(i, checks)
         IN  [s |-> "decreasing", cur_size |-> d.value,
              ctl |-> IF d.panic THEN "overflow" ELSE "continue"]

match_s(st, ok, i, checks) ==
    CASE st = "init"       -> arm_init(ok, i, checks)
      [] st = "increasing" -> arm_increasing(ok, i, checks)
      [] st = "decreasing" -> arm_decreasing(ok, i, checks)

\* The messages of the two panics of new: line 63, and the arithmetic
\* overflow check of `cur_size -= 1` (lines 71 and 77).
panic_no_size == "GPURSSorter::new() No workgroup size that works was found. Unable to use sorter"

panic_overflow == "attempt to subtract with overflow"

\* The components that a specification does not exercise stay as below.
NoCall == [op |-> "none", keysize |-> 0, passes |-> 0, a |-> <<>>, b |-> <<>>, ok |-> TRUE]

SizesIdle == keysize_arg = 0 /\ sizes_ret = <<>>

NoneCreated == [buffers |-> 0, bind_groups |-> 0]

BuffersIdle == created = NoneCreated /\ keyvals = <<>> /\ internal_mem = <<>> /\ bind_group = <<>>

GpuIdle ==
    /\ run = [n |-> 0, data |-> <<>>, probe |-> FALSE]
    /\ tpc = "idle"
    /\ mem = <<>> /\ queue = <<>> /\ accesses = <<>>
    /\ xfer = [uploaded |-> "", downloaded |-> ""]
    /\ sorted = <<>>

CallsIdle ==
    /\ last = NoCall
    /\ before = [encoder |-> <<>>, created |-> NoneCreated, bind_group |-> <<>>]
    /\ panic = ""

\* State after lines 56-60: the ladder, cur_size = 2, a first sorter of width
\* sizes[2], s = init; the loop is about to be entered.
NewInit ==
    /\ overflow_checks \in BOOLEAN
    /\ device \in [Widths -> BOOLEAN]
    /\ pc = "loop"
    /\ cur_size = 2
    /\ s = "init"
    /\ sort_success = FALSE
    /\ cur_sorter = new_with_sg_size(sizes_at(2))
    /\ probes = <<>>
    /\ SizesIdle /\ BuffersIdle /\ encoder = <<>> /\ CallsIdle /\ GpuIdle

\* Lines 61-64: the head of an iteration and the range check.
NewLoopCheck ==
    /\ pc = "loop"
    /\ pc' = IF index_out_of_range(cur_size) THEN "panicked" ELSE "probe"
    /\ panic' = IF index_out_of_range(cur_size) THEN panic_no_size ELSE panic
    /\ UNCHANGED <<overflow_checks, device, cur_size, s, sort_success, cur_sorter, probes>>
    /\ UNCHANGED <<sizevars, bufvars, encoder, last, before, gpuvars>>

\* Lines 65-67: build the sorter of the current width and run the probe.
NewProbe ==
    /\ pc = "probe"
    /\ LET sorter == new_with_sg_size(sizes_at(cur_size))
           ok == probe_outcome(sorter)
       IN  /\ cur_sorter' = sorter
           /\ sort_success' = ok
           /\ probes' = Append(probes, <<sorter.subgroup_size, ok>>)
    /\ pc' = "match"
    /\ UNCHANGED <<overflow_checks, device, cur_size, s>>
    /\ UNCHANGED <<sizevars, bufvars, encoder, callvars, gpuvars>>

\* Lines 68-78: the match on s.
NewMatch ==
    /\ pc = "match"
    /\ LET r == match_s(s, sort_success, cur_size, overflow_checks)
       IN  /\ s' = r.s
           /\ cur_size' = r.cur_size
           /\ cur_sorter' = IF r.ctl = "rollback"
                            THEN new_with_sg_size(sizes_at(cur_size - 1))
                            ELSE cur_sorter
           /\ pc' = CASE r.ctl = "continue" -> "loop"
                      [] r.ctl \in {"break", "rollback"} -> "returned"
                      [] r.ctl = "overflow" -> "panicked"
           /\ panic' = IF r.ctl = "overflow" THEN panic_overflow ELSE panic
    /\ UNCHANGED <<overflow_checks, device, sort_success, probes>>
    /\ UNCHANGED <<sizevars, bufvars, encoder, last, before, gpuvars>>

NewNext == NewLoopCheck \/ NewProbe \/ NewMatch

SpecNew == NewInit /\ [][NewNext]_vars

\* new runs on one thread and nothing blocks it: a step that can be taken is
\* taken.
SpecNewFair == SpecNew /\ WF_vars(NewNext)

(***************************************************************************)
(* The size calculator, lines 231-241.  usize arithmetic is modelled on    *)
(* the naturals: every keysize of the model is far enough below usize::MAX *)
(* for no sum or product below to overflow in the build.                   *)
(***************************************************************************)
\* A variant that rounds up by adding one block to the quotient.
get_scatter_histogram_sizes_plus_one(keysize) ==
    LET scatter_block_kvs == histogram_wg_size * rs_scatter_block_rows
        scatter_blocks_ru == keysize \div scatter_block_kvs + 1
        count_ru_scatter  == scatter_blocks_ru * scatter_block_kvs
        histo_block_kvs   == histogram_wg_size * rs_histogram_block_rows
        histo_blocks_ru   == (count_ru_scatter + histo_block_kvs - 1) \div histo_block_kvs
        count_ru_histo    == histo_blocks_ru * histo_block_kvs
    IN  <<scatter_block_kvs, scatter_blocks_ru, count_ru_scatter,
          histo_block_kvs, histo_blocks_ru, count_ru_histo>>

get_scatter_histogram_sizes(keysize) ==
    LET scatter_block_kvs == histogram_wg_size * rs_scatter_block_rows
        scatter_blocks_ru == (keysize + scatter_block_kvs - 1) \div scatter_block_kvs
        count_ru_scatter  == scatter_blocks_ru * scatter_block_kvs
        histo_block_kvs   == histogram_wg_size * rs_histogram_block_rows
        histo_blocks_ru   == (count_ru_scatter + histo_block_kvs - 1) \div histo_block_kvs
        count_ru_histo    == histo_blocks_ru * histo_block_kvs
    IN  <<scatter_block_kvs, scatter_blocks_ru, count_ru_scatter,
          histo_block_kvs, histo_blocks_ru, count_ru_histo>>

\* std::mem::size_of::<f32>() and size_of::<u32>()
size_of_f32 == 4

size_of_u32 == 4

(***************************************************************************)
(* Numeric casts.                                                          *)
(***************************************************************************)
\* `x as u32` of a usize keeps the low 32 bits.  The model's usize ends at
\* 2^31 - 1 (usize_MAX above), below 2^32, so the cast changes none of them.
as_u32(x) == x

\* The exponent of the leading bit of n >= 1.
RECURSIVE ilog2(_)
ilog2(n) == IF n <= 1 THEN 0 ELSE 1 + ilog2(n \div 2)

\* `n as f32` of a usize: the nearest value with a 24-bit significand, ties
\* to the even significand.  The result is an integer, kept as one.
usize_as_f32(n) ==
    IF n < 2 ^ 24 THEN n
    ELSE LET ulp == 2 ^ (ilog2(n) - 23)
             q   == n \div ulp
             r   == n % ulp
         IN  IF 2 * r < ulp THEN q * ulp
             ELSE IF 2 * r > ulp THEN (q + 1) * ulp
             ELSE IF q % 2 = 0 THEN q * ulp ELSE (q + 1) * ulp

\* (n as f32 / histogram_wg_size as f32).ceil() as u32, line 360.  256 is a
\* power of two, so the f32 division is exact; ceil gives the least integer
\* not below the quotient; the cast to u32 changes no value below 2^32.
zero_dispatch(n) ==
    LET x == usize_as_f32(n)
        d == usize_as_f32(histogram_wg_size)
    IN  as_u32((x + d - 1) \div d)

(***************************************************************************)
(* The buffer factory, lines 243-305.  A buffer descriptor is              *)
(* [label, size].                                                          *)
(***************************************************************************)
\* The two descriptors of create_keyval_buffers (both carry the label of a).
create_keyval_buffers(keysize) ==
    LET count_ru_histo == get_scatter_histogram_sizes(keysize)[6]
        buffer_a == [label |-> "Radix data buffer a", size |-> count_ru_histo * size_of_f32]
        buffer_b == [label |-> "Radix data buffer a", size |-> count_ru_histo * size_of_f32]
    IN  <<buffer_a, buffer_b>>

\* The descriptor of create_internal_mem_buffer.
create_internal_mem_buffer(keysize) ==
    LET scatter_blocks_ru == get_scatter_histogram_sizes(keysize)[2]
        histo_size    == rs_radix_size * size_of_u32
        internal_size == (rs_keyval_size + scatter_blocks_ru - 1) * histo_size
    IN  [label |-> "Internal radix sort buffer", size |-> internal_size]

\* A variant of the check below that rejects only when both sizes are wrong.
keyvals_not_padded_both(keysize, keyval_a, keyval_b) ==
    LET count_ru_histo == get_scatter_histogram_sizes(keysize)[6]
    IN  /\ keyval_a.size # count_ru_histo * size_of_f32
        /\ keyval_b.size # count_ru_histo * size_of_f32

\* The check of create_bind_group, line 309: TRUE when it panics.
keyvals_not_padded(keysize, keyval_a, keyval_b) ==
    LET count_ru_histo == get_scatter_histogram_sizes(keysize)[6]
    IN  \/ keyval_a.size # count_ru_histo * size_of_f32
        \/ keyval_b.size # count_ru_histo * size_of_f32

panic_not_padded == "Keyval buffers are not padded correctly. Were they created with GPURSSorter::create_keyval_buffers()"

\* GeneralInfo as create_bind_group fills it, line 312.
uniform_infos(keysize) ==
    [ histogram_size |-> 0,
      keys_size      |-> as_u32(keysize),
      padded_size    |-> as_u32(get_scatter_histogram_sizes(keysize)[6]),
      passes         |-> 4,
      even_pass      |-> 0,
      odd_pass       |-> 0 ]

\* create_bind_group, lines 307-340: the panic, or the uniform buffer and the
\* bind group it creates.
create_bind_group(keysize, internal_mem_buffer, keyval_a, keyval_b) ==
    IF keyvals_not_padded(keysize, keyval_a, keyval_b)
    THEN [panic |-> panic_not_padded, buffers |-> <<>>, bind_groups |-> <<>>]
    ELSE [panic |-> "",
          buffers |-> << [label |-> "Radix uniform buffer",
                          contents |-> uniform_infos(keysize)] >>,
          bind_groups |-> << [label |-> "Radix bind group",
                              binding0 |-> uniform_infos(keysize),
                              binding1 |-> internal_mem_buffer,
                              binding2 |-> keyval_a,
                              binding3 |-> keyval_b] >>]

(***************************************************************************)
(* The pass recorder, lines 342-404.  The encoder is the sequence of its   *)
(* compute passes; a pass is [label, bind_group, dispatches], a dispatch    *)
(* [pipeline, x, y, z].  Each record operator yields the encoder after the *)
(* call and the panic message, "" when there is none.                      *)
(***************************************************************************)
Dispatch(pipeline, x) == [pipeline |-> pipeline, x |-> x, y |-> 1, z |-> 1]

\* begin_compute_pass .. set_bind_group(0, bind_group) .. the dispatches.
ComputePass(label, bg, dispatches) ==
    [label |-> label, bind_group |-> bg, dispatches |-> dispatches]

record_calculate_histogram(self, bg, keysize, enc) ==
    LET szs == get_scatter_histogram_sizes(keysize)
        scatter_blocks_ru == szs[2]
        hist_blocks_ru    == szs[5]
        count_ru_histo    == szs[6]
        histo_size == rs_radix_size
        n == (rs_keyval_size + scatter_blocks_ru - 1) * histo_size
             + (IF count_ru_histo > keysize THEN count_ru_histo - keysize ELSE 0)
        dispatch == zero_dispatch(n)
    IN  [panic |-> "",
         encoder |-> enc \o
            << ComputePass("zeroing the histogram", bg, <<Dispatch(self.zero_p, dispatch)>>),
               ComputePass("calculate histogram", bg,
                           <<Dispatch(self.histogram_p, as_u32(hist_blocks_ru))>>) >>]

record_prefix_histogram(self, bg, passes, enc) ==
    [panic |-> "",
     encoder |-> Append(enc, ComputePass("prefix histogram", bg,
                                         <<Dispatch(self.prefix_p, as_u32(passes))>>))]

panic_passes == "assertion failed: passes == 4"

\* A variant without the assertion on passes.
record_scatter_keys_unasserted(self, bg, passes, keysize, enc) ==
    LET scatter_blocks_ru == get_scatter_histogram_sizes(keysize)[2]
        x == as_u32(scatter_blocks_ru)
    IN  [panic |-> "",
         encoder |-> Append(enc, ComputePass("Scatter keyvals", bg,
               << Dispatch(self.scatter_even_p, x),
                  Dispatch(self.scatter_odd_p, x),
                  Dispatch(self.scatter_even_p, x),
                  Dispatch(self.scatter_odd_p, x) >>))]

\* A variant that records the passes in the order odd, even, odd, even.
record_scatter_keys_odd_first(self, bg, passes, keysize, enc) ==
    IF passes # 4 THEN [panic |-> panic_passes, encoder |-> enc]
    ELSE LET scatter_blocks_ru == get_scatter_histogram_sizes(keysize)[2]
             x == as_u32(scatter_blocks_ru)
         IN  [panic |-> "",
              encoder |-> Append(enc, ComputePass("Scatter keyvals", bg,
                    << Dispatch(self.scatter_odd_p, x),
                       Dispatch(self.scatter_even_p, x),
                       Dispatch(self.scatter_odd_p, x),
                       Dispatch(self.scatter_even_p, x) >>))]

\* A variant whose scatter passes dispatch a single workgroup each.
record_scatter_keys_one_block(self, bg, passes, keysize, enc) ==
    IF passes # 4 THEN [panic |-> panic_passes, encoder |-> enc]
    ELSE [panic |-> "",
          encoder |-> Append(enc, ComputePass("Scatter keyvals", bg,
                << Dispatch(self.scatter_even_p, 1),
                   Dispatch(self.scatter_odd_p, 1),
                   Dispatch(self.scatter_even_p, 1),
                   Dispatch(self.scatter_odd_p, 1) >>))]

record_scatter_keys(self, bg, passes, keysize, enc) ==
    IF passes # 4 THEN [panic |-> panic_passes, encoder |-> enc]
    ELSE LET scatter_blocks_ru == get_scatter_histogram_sizes(keysize)[2]
             x == as_u32(scatter_blocks_ru)
         IN  [panic |-> "",
              encoder |-> Append(enc, ComputePass("Scatter keyvals", bg,
                    << Dispatch(self.scatter_even_p, x),
                       Dispatch(self.scatter_odd_p, x),
                       Dispatch(self.scatter_even_p, x),
                       Dispatch(self.scatter_odd_p, x) >>))]

\* A variant that records the prefix scan before the histogram.
record_sort_prefix_first(self, bg, keysize, enc) ==
    LET r1 == record_prefix_histogram(self, bg, 4, enc)
        r2 == record_calculate_histogram(self, bg, keysize, r1.encoder)
        r3 == record_scatter_keys(self, bg, 4, keysize, r2.encoder)
    IN  IF r1.panic # "" THEN r1 ELSE IF r2.panic # "" THEN r2 ELSE r3

\* record_sort, lines 400-404: the three recorders in sequence; a panic ends it.
record_sort(self, bg, keysize, enc) ==
    LET r1 == record_calculate_histogram(self, bg, keysize, enc)
        r2 == record_prefix_histogram(self, bg, 4, r1.encoder)
        r3 == record_scatter_keys(self, bg, 4, keysize, r2.encoder)
    IN  IF r1.panic # "" THEN r1 ELSE IF r2.panic # "" THEN r2 ELSE r3

\* The dispatches of an encoder, in the order they were recorded.
RECURSIVE Dispatches(_)
Dispatches(enc) ==
    IF enc = <<>> THEN <<>> ELSE Head(enc).dispatches \o Dispatches(Tail(enc))


(***************************************************************************)
(* Inputs.  The bounds of the model and the key counts it is run on.       *)
(***************************************************************************)
MaxBlocks == 3

Margin == 8

MaxPassesArg == 6

MaxEncoderPasses == 2

MaxBuffers == 4

\* The key counts of spec.md sections 4.6 and 8.
ScenarioKeysizes == {1, 2, 15, 256, 512, 3840, 3841, 1000003}

\* Key counts around the block boundaries k * 3840.
EdgeKeysizes(margin) ==
    LET kvs == histogram_wg_size * rs_scatter_block_rows
    IN  {n \in {k * kvs + d : k \in 0..MaxBlocks, d \in (0 - margin)..margin} : n >= 1}

\* Key counts whose zero pass covers about 2^24 words, where f32 stops
\* holding every integer: 65533 and 131069 scatter blocks.
LargeKeysizes ==
    LET kvs == histogram_wg_size * rs_scatter_block_rows
    IN  {k * kvs - d : k \in {65533, 131069}, d \in 0..3}

SizeKeysizes == ScenarioKeysizes \cup EdgeKeysizes(Margin) \cup LargeKeysizes

RecordKeysizes == ScenarioKeysizes \cup EdgeKeysizes(1) \cup LargeKeysizes

BufferKeysizes == {1, 3840, 3841}

\* Sizes of the buffers a caller makes without create_keyval_buffers.
CallerSizes == {0, 4 * 3840, 4 * 3840 + 4, 8 * 3840}

(***************************************************************************)
(* The size calculator on its own.                                         *)
(***************************************************************************)
SizesInit ==
    /\ keysize_arg \in SizeKeysizes
    /\ sizes_ret = <<>>
    /\ overflow_checks = FALSE /\ device = [w \in Widths |-> TRUE]
    /\ pc = "returned" /\ cur_size = 2 /\ s = "init" /\ sort_success = FALSE
    /\ cur_sorter = new_with_sg_size(sizes_at(2)) /\ probes = <<>>
    /\ BuffersIdle /\ encoder = <<>> /\ CallsIdle /\ GpuIdle

CallSizes ==
    /\ sizes_ret = <<>>
    /\ sizes_ret' = get_scatter_histogram_sizes(keysize_arg)
    /\ UNCHANGED <<newvars, keysize_arg, bufvars, encoder, callvars, gpuvars>>

SpecSizes == SizesInit /\ [][CallSizes]_vars

(***************************************************************************)
(* The public interface after construction: the sorter is one that new     *)
(* returned, and the caller makes buffers, bind groups and recordings.     *)
(***************************************************************************)
Call(op, keysize, passes, a, b, msg) ==
    /\ last' = [op |-> op, keysize |-> keysize, passes |-> passes,
                a |-> a, b |-> b, ok |-> (msg = "")]
    /\ before' = [encoder |-> encoder, created |-> created, bind_group |-> bind_group]
    /\ panic' = msg

\* A buffer as the caller holds it: the descriptor it was created with, the
\* name of the variable the factory returned it in, and the key count it was
\* made for ("caller", 0: a buffer the caller created itself).
Made(desc, which, keysize) ==
    [label |-> desc.label, size |-> desc.size, which |-> which, made_for |-> keysize]

CallerBuffer(size) ==
    [label |-> "caller buffer", size |-> size, which |-> "caller", made_for |-> 0]

CreateKeyvalBuffers(keysize) ==
    /\ panic = "" /\ created.buffers < MaxBuffers
    /\ LET d == create_keyval_buffers(keysize)
       IN  /\ created' = [created EXCEPT !.buffers = @ + Len(d)]
           /\ keyvals' = <<Made(d[1], "buffer_a", keysize), Made(d[2], "buffer_b", keysize)>>
    /\ Call("create_keyval_buffers", keysize, 0, <<>>, <<>>, "")
    /\ UNCHANGED <<newvars, sizevars, internal_mem, bind_group, encoder, gpuvars>>

CreateInternalMemBuffer(keysize) ==
    /\ panic = "" /\ created.buffers < MaxBuffers
    /\ created' = [created EXCEPT !.buffers = @ + 1]
    /\ internal_mem' = Made(create_internal_mem_buffer(keysize), "buffer", keysize)
    /\ Call("create_internal_mem_buffer", keysize, 0, <<>>, <<>>, "")
    /\ UNCHANGED <<newvars, sizevars, keyvals, bind_group, encoder, gpuvars>>

\* The keyval buffers a caller can pass: the pair create_keyval_buffers
\* returned, in either place, or buffers of its own making.
KeyvalArgs ==
    {keyvals[k] : k \in 1..Len(keyvals)} \cup {CallerBuffer(sz) : sz \in CallerSizes}

CreateBindGroup(keysize, a, b) ==
    /\ panic = "" /\ created.buffers < MaxBuffers
    /\ internal_mem # <<>>
    /\ LET r == create_bind_group(keysize, internal_mem, a, b)
       IN  /\ created' = [buffers |-> created.buffers + Len(r.buffers),
                          bind_groups |-> created.bind_groups + Len(r.bind_groups)]
           /\ bind_group' = IF r.panic = "" THEN r.bind_groups[1] ELSE bind_group
           /\ Call("create_bind_group", keysize, 0, a, b, r.panic)
    /\ UNCHANGED <<newvars, sizevars, keyvals, internal_mem, encoder, gpuvars>>

\* device.create_command_encoder: a fresh, empty encoder (line 217).
CreateCommandEncoder ==
    /\ panic = "" /\ encoder # <<>>
    /\ encoder' = <<>>
    /\ Call("create_command_encoder", 0, 0, <<>>, <<>>, "")
    /\ UNCHANGED <<newvars, sizevars, bufvars, gpuvars>>

Recorded(op, keysize, passes, r) ==
    /\ encoder' = r.encoder
    /\ Call(op, keysize, passes, <<>>, <<>>, r.panic)
    /\ UNCHANGED <<newvars, sizevars, bufvars, gpuvars>>

RecordCalculateHistogram(keysize) ==
    /\ panic = "" /\ bind_group # <<>> /\ Len(encoder) < MaxEncoderPasses
    /\ Recorded("record_calculate_histogram", keysize, 0,
                record_calculate_histogram(cur_sorter, bind_group, keysize, encoder))

RecordPrefixHistogram(passes) ==
    /\ panic = "" /\ bind_group # <<>> /\ Len(encoder) < MaxEncoderPasses
    /\ Recorded("record_prefix_histogram", 0, passes,
                record_prefix_histogram(cur_sorter, bind_group, passes, encoder))

RecordScatterKeys(passes, keysize) ==
    /\ panic = "" /\ bind_group # <<>> /\ Len(encoder) < MaxEncoderPasses
    /\ Recorded("record_scatter_keys", keysize, passes,
                record_scatter_keys(cur_sorter, bind_group, passes, keysize, encoder))

RecordSort(keysize) ==
    /\ panic = "" /\ bind_group # <<>> /\ Len(encoder) < MaxEncoderPasses
    /\ Recorded("record_sort", keysize, 4,
                record_sort(cur_sorter, bind_group, keysize, encoder))

\* The sorter of the public interface: any that new can have returned.
SorterInit ==
    /\ overflow_checks = FALSE /\ device = [w \in Widths |-> TRUE]
    /\ pc = "returned" /\ cur_size = 2 /\ s = "init" /\ sort_success = FALSE
    /\ cur_sorter \in {new_with_sg_size(w) : w \in Widths} /\ probes = <<>>
    /\ SizesIdle /\ encoder = <<>> /\ CallsIdle

InterfaceInit == SorterInit /\ GpuIdle

\* ---- buffers and bind groups, then one recorded sort
BuffersInit == InterfaceInit /\ BuffersIdle

BuffersNext ==
    \/ \E n \in BufferKeysizes : CreateKeyvalBuffers(n)
    \/ \E n \in BufferKeysizes : CreateInternalMemBuffer(n)
    \/ \E n \in BufferKeysizes : \E a, b \in KeyvalArgs : CreateBindGroup(n, a, b)
    \/ \E n \in BufferKeysizes : encoder = <<>> /\ RecordSort(n)

SpecBuffers == BuffersInit /\ [][BuffersNext]_vars

\* ---- recording, with the bind group test_sort makes (n = 512)
ProbeBindGroup ==
    LET n  == 512
        kv == create_keyval_buffers(n)
    IN  create_bind_group(n, Made(create_internal_mem_buffer(n), "buffer", n),
                          Made(kv[1], "buffer_a", n),
                          Made(kv[2], "buffer_b", n)).bind_groups[1]

RecordInit ==
    /\ InterfaceInit
    /\ created = NoneCreated /\ keyvals = <<>> /\ internal_mem = <<>>
    /\ bind_group = ProbeBindGroup

RecordNext ==
    \/ CreateCommandEncoder
    \/ \E n \in RecordKeysizes : RecordCalculateHistogram(n)
    \/ \E p \in 0..MaxPassesArg : RecordPrefixHistogram(p)
    \/ \E p \in 0..MaxPassesArg : \E n \in RecordKeysizes : RecordScatterKeys(p, n)
    \/ \E n \in RecordKeysizes : RecordSort(n)

SpecRecord == RecordInit /\ [][RecordNext]_vars


(***************************************************************************)
(* Keys on the device.  A key is the four bytes of an f32, least           *)
(* significant first (the order bytemuck::cast_slice writes them); byte k  *)
(* is the digit of radix pass k.                                           *)
(***************************************************************************)
u32_bytes(v) ==
    <<v % 256, (v \div 256) % 256, (v \div 65536) % 256, v \div 16777216>>

\* `x as f32` of an integer 0 <= x < 2^24 (line 208), as its bit pattern:
\* sign 0, biased exponent 127 + e, the 23 bits below the leading one.
f32_bits(x) ==
    IF x = 0 THEN 0
    ELSE LET e == ilog2(x)
         IN  (127 + e) * 2 ^ 23 + (x - 2 ^ e) * 2 ^ (23 - e)

f32_key(x) == u32_bytes(f32_bits(x))

ZeroKey == <<0, 0, 0, 0>>

\* The sentinel of the padding slots: the maximum key (spec.md section 3).
SentinelKey == <<255, 255, 255, 255>>

Repeat(x, count) == [k \in 1..count |-> x]

Min(a, b) == IF a <= b THEN a ELSE b

Max(a, b) == IF a >= b THEN a ELSE b

\* seq with sub written over the slots off + 1 .. off + Len(sub); what
\* would fall outside seq is dropped.
WriteAt(seq, off, sub) ==
    LET m == Max(0, Min(Len(sub), Len(seq) - off))
    IN  IF m = 0 THEN seq
        ELSE SubSeq(seq, 1, off) \o SubSeq(sub, 1, m) \o SubSeq(seq, off + m + 1, Len(seq))

(***************************************************************************)
(* The kernels of shaders/radix_sort.wgsl, from spec.md sections 3, 4.2    *)
(* and 4.4.  m is the device memory, bg the bind group of the pass, x the  *)
(* number of workgroups dispatched.  The partition records of the          *)
(* decoupled look-back are internal to a scatter pass and not modelled.    *)
(***************************************************************************)
\* zero_histograms: one thread per word of the scratch buffer, then one per
\* padding slot [keys_size, padded_size) of keyval A; x * 256 threads run.
kernel_zero_histograms(m, bg, x) ==
    LET covered == x * histogram_wg_size
        words   == bg.binding1.size \div size_of_u32
        n       == bg.binding0.keys_size
        padded  == bg.binding0.padded_size
        slots   == Max(0, Min(padded - n, covered - words))
        A       == bg.binding2.which
    IN  [m EXCEPT
           !.histograms = [h \in 1..rs_keyval_size |->
                             IF covered >= h * rs_radix_size
                             THEN Repeat(0, rs_radix_size) ELSE @[h]],
           ![A] = WriteAt(@, n, Repeat(SentinelKey, slots))]

\* How often digit d occurs as byte h of the keys.
DigitCount(keys, h, d) ==
    LET Is(key) == key[h] = d
    IN  Len(SelectSeq(keys, Is))

DigitsOf(keys, h) == {keys[i][h] : i \in 1..Len(keys)}

\* calculate_histogram: each workgroup counts one block of 3840 keys of A
\* into the four digit histograms.
kernel_calculate_histogram(m, bg, x) ==
    LET A       == bg.binding2.which
        covered == Min(x * histogram_wg_size * rs_histogram_block_rows, Len(m[A]))
        keys    == SubSeq(m[A], 1, covered)
    IN  [m EXCEPT
           !.histograms = [h \in 1..rs_keyval_size |->
                             LET present == DigitsOf(keys, h)
                             IN  [d \in 1..rs_radix_size |->
                                    @[h][d] + (IF (d - 1) \in present
                                               THEN DigitCount(keys, h, d - 1)
                                               ELSE 0)]]]

\* The exclusive prefix sum of a histogram, by halving: the sum of
\* hist[lo..hi], and the scan of hist[lo..hi] started at offset.
RECURSIVE RangeSum(_, _, _)
RangeSum(hist, lo, hi) ==
    IF lo = hi THEN hist[lo]
    ELSE LET mid == (lo + hi) \div 2
         IN  RangeSum(hist, lo, mid) + RangeSum(hist, mid + 1, hi)

RECURSIVE RangeScan(_, _, _, _)
RangeScan(hist, lo, hi, offset) ==
    IF lo = hi THEN <<offset>>
    ELSE LET mid == (lo + hi) \div 2
         IN  RangeScan(hist, lo, mid, offset)
             \o RangeScan(hist, mid + 1, hi, offset + RangeSum(hist, lo, mid))

ExclusiveScan(hist) == RangeScan(hist, 1, Len(hist), 0)

\* prefix_histogram: workgroup h turns histogram h into its exclusive prefix
\* sum.
kernel_prefix_histogram(m, bg, x) ==
    [m EXCEPT
       !.histograms = [h \in 1..rs_keyval_size |->
                         IF h <= x THEN ExclusiveScan(@[h]) ELSE @[h]]]

\* The keys of src moved to dst: those of digit d, in their order in src, to
\* the slots from prefix[d] on; digits lo..hi of the sequence ds, by halving.
RECURSIVE ScatterDigits(_, _, _, _, _, _, _)
ScatterDigits(dst, src, h, prefix, ds, lo, hi) ==
    IF lo > hi THEN dst
    ELSE IF lo = hi
    THEN LET Is(key) == key[h] = ds[lo]
         IN  WriteAt(dst, prefix[ds[lo] + 1], SelectSeq(src, Is))
    ELSE LET mid   == (lo + hi) \div 2
             lower == ScatterDigits(dst, src, h, prefix, ds, lo, mid)
         IN  \* the lower digits are written before the upper ones
             IF Len(lower) = Len(dst)
             THEN ScatterDigits(lower, src, h, prefix, ds, mid + 1, hi)
             ELSE lower

\* The digits that occur as byte h of the keys, in increasing order.
DigitSeq(keys, h) ==
    LET present == DigitsOf(keys, h)
        Occurs(d) == d \in present
    IN  SelectSeq([d \in 1..rs_radix_size |-> d - 1], Occurs)

\* scatter_even and scatter_odd: one radix pass.  Even reads keyval A and
\* writes keyval B, odd reads B and writes A; the even kernel sorts on digit
\* 2 * even_pass, the odd one on digit 2 * odd_pass + 1, and each counts its
\* own passes in the uniform.  Each workgroup moves one block of 3840 keys.
scatter_reads(pipeline, bg) ==
    IF pipeline = "scatter_even" THEN bg.binding2.which ELSE bg.binding3.which

scatter_writes(pipeline, bg) ==
    IF pipeline = "scatter_even" THEN bg.binding3.which ELSE bg.binding2.which

kernel_scatter(m, bg, x, pipeline) ==
    LET even    == pipeline = "scatter_even"
        pass    == IF even THEN 2 * m.infos.even_pass ELSE 2 * m.infos.odd_pass + 1
        h       == (pass % rs_keyval_size) + 1
        from    == scatter_reads(pipeline, bg)
        to      == scatter_writes(pipeline, bg)
        covered == Min(x * histogram_wg_size * rs_scatter_block_rows, Len(m[from]))
        src     == SubSeq(m[from], 1, covered)
    IN  [m EXCEPT
           ![to] = LET ds == DigitSeq(src, h)
                   IN  ScatterDigits(@, src, h, m.histograms[h], ds, 1, Len(ds)),
           !.infos = IF even THEN [@ EXCEPT !.even_pass = @ + 1]
                     ELSE [@ EXCEPT !.odd_pass = @ + 1]]

kernel(m, bg, d) ==
    CASE d.pipeline = "zero_histograms"     -> kernel_zero_histograms(m, bg, d.x)
      [] d.pipeline = "calculate_histogram" -> kernel_calculate_histogram(m, bg, d.x)
      [] d.pipeline = "prefix_histogram"    -> kernel_prefix_histogram(m, bg, d.x)
      [] d.pipeline \in {"scatter_even", "scatter_odd"}
                                            -> kernel_scatter(m, bg, d.x, d.pipeline)

(***************************************************************************)
(* test_sort, lines 205-229, and the helpers upload_to_buffer and          *)
(* download_buffer, lines 407-450.  The code runs it with n = 512 on the   *)
(* reversed integers; the model runs the same steps on every input of      *)
(* SortRuns, and the final compare on the reversed ones.                   *)
(***************************************************************************)
\* scrambled_data and sorted_data, lines 208-209, for n keys.
scrambled_data(n) == [i \in 1..n |-> f32_key(n - i)]

sorted_data(n) == [i \in 1..n |-> f32_key(i - 1)]

\* The buffer test_sort uploads the keys to (line 215).
test_sort_upload_target(keyval_a, keyval_b) == keyval_a

\* A read-back of the other buffer of the pair.
test_sort_download_other(keyval_a, keyval_b) == keyval_b

\* The buffer test_sort reads back (line 222).
test_sort_download_source(keyval_a, keyval_b) == keyval_a

\* for i in 0..n { if sorted[i] != sorted_data[i] { return false; } } return true
test_sort_compare(n, got, want) == \A i \in 1..n : got[i] = want[i]

\* The passes of an encoder as the queue executes them: dispatch by dispatch,
\* each with the bind group set in its pass.
RECURSIVE Commands(_)
Commands(enc) ==
    IF enc = <<>> THEN <<>>
    ELSE [k \in 1..Len(Head(enc).dispatches) |->
             [bind_group |-> Head(enc).bind_group, dispatch |-> Head(enc).dispatches[k]]]
         \o Commands(Tail(enc))

\* Lines 211-213: the scratch buffer, the keyval pair and the bind group.
\* Fresh device memory is zero.
TestSortCreate ==
    /\ tpc = "start"
    /\ LET n  == run.n
           im == Made(create_internal_mem_buffer(n), "buffer", n)
           d  == create_keyval_buffers(n)
           a  == Made(d[1], "buffer_a", n)
           b  == Made(d[2], "buffer_b", n)
           r  == create_bind_group(n, im, a, b)
       IN  /\ internal_mem' = im
           /\ keyvals' = <<a, b>>
           /\ created' = [buffers |-> created.buffers + 3 + Len(r.buffers),
                          bind_groups |-> created.bind_groups + Len(r.bind_groups)]
           /\ panic' = r.panic
           /\ IF r.panic = ""
              THEN /\ bind_group' = r.bind_groups[1]
                   /\ mem' = [buffer_a   |-> Repeat(ZeroKey, a.size \div size_of_f32),
                              buffer_b   |-> Repeat(ZeroKey, b.size \div size_of_f32),
                              histograms |-> Repeat(Repeat(0, rs_radix_size), rs_keyval_size),
                              infos      |-> r.buffers[1].contents]
                   /\ tpc' = "created"
              ELSE /\ bind_group' = bind_group
                   /\ mem' = mem
                   /\ tpc' = "panicked"
    /\ UNCHANGED <<newvars, sizevars, encoder, last, before,
                   run, queue, accesses, xfer, sorted>>

\* Line 215: upload_to_buffer copies the keys to the start of the buffer.
TestSortUpload ==
    /\ tpc = "created"
    /\ LET target == test_sort_upload_target(keyvals[1], keyvals[2]).which
       IN  /\ mem' = [mem EXCEPT ![target] = WriteAt(@, 0, run.data)]
           /\ xfer' = [xfer EXCEPT !.uploaded = target]
    /\ tpc' = "uploaded"
    /\ UNCHANGED <<newvars, sizevars, bufvars, encoder, callvars,
                   run, queue, accesses, sorted>>

\* Lines 217-218: a fresh encoder and record_sort.
TestSortRecord ==
    /\ tpc = "uploaded"
    /\ LET r == record_sort(cur_sorter, bind_group, run.n, <<>>)
       IN  /\ encoder' = r.encoder
           /\ panic' = r.panic
           /\ tpc' = IF r.panic = "" THEN "recorded" ELSE "panicked"
    /\ UNCHANGED <<newvars, sizevars, bufvars, last, before,
                   run, mem, queue, accesses, xfer, sorted>>

\* Line 219: queue.submit([encoder.finish()]).
TestSortSubmit ==
    /\ tpc = "recorded"
    /\ queue' = Commands(encoder)
    /\ tpc' = "submitted"
    /\ UNCHANGED <<newvars, sizevars, bufvars, encoder, callvars,
                   run, mem, accesses, xfer, sorted>>

\* The device executes the dispatches of a command buffer in submission
\* order, each after the one before it has finished.
DeviceExecute ==
    /\ queue # <<>>
    /\ LET c == Head(queue)
           p == c.dispatch.pipeline
       IN  /\ mem' = kernel(mem, c.bind_group, c.dispatch)
           /\ accesses' = IF p \in {"scatter_even", "scatter_odd"}
                          THEN Append(accesses,
                                      [pipeline |-> p,
                                       reads  |-> scatter_reads(p, c.bind_group),
                                       writes |-> scatter_writes(p, c.bind_group)])
                          ELSE accesses
    /\ queue' = Tail(queue)
    /\ UNCHANGED <<newvars, sizevars, bufvars, encoder, callvars,
                   run, tpc, xfer, sorted>>

\* Lines 220-222: device.poll(Maintain::Wait) returns once the queue is
\* empty; download_buffer then copies the whole buffer back.
TestSortDownload ==
    /\ tpc = "submitted"
    /\ queue = <<>>
    /\ LET source == test_sort_download_source(keyvals[1], keyvals[2]).which
       IN  /\ sorted' = mem[source]
           /\ xfer' = [xfer EXCEPT !.downloaded = source]
    /\ tpc' = "downloaded"
    /\ UNCHANGED <<newvars, sizevars, bufvars, encoder, callvars,
                   run, mem, queue, accesses>>

\* Lines 223-228: the element-wise compare with sorted_data.
TestSortCompare ==
    /\ tpc = "downloaded"
    /\ run.probe
    /\ sort_success' = test_sort_compare(run.n, sorted, sorted_data(run.n))
    /\ tpc' = "compared"
    /\ UNCHANGED <<overflow_checks, device, pc, cur_size, s, cur_sorter, probes,
                   sizevars, bufvars, encoder, callvars,
                   run, mem, queue, accesses, xfer, sorted>>

\* ---- the inputs of the sort runs
MaxSortKeys == 2

\* Non-negative f32 keys: 0.0, two subnormals, 1.0, its successor, 1000.0 and
\* the largest finite value.
KeyPatterns ==
    { <<0, 0, 0, 0>>, <<255, 0, 0, 0>>, <<0, 1, 0, 0>>, <<0, 0, 128, 63>>,
      <<1, 0, 128, 63>>, <<0, 0, 122, 68>>, <<255, 255, 127, 127>> }

\* The key counts of the reversed-integer runs; 512 is test_sort's.
ReversedCounts == {1, 2, 8, 512}

SortRuns ==
    {[n |-> n, data |-> scrambled_data(n), probe |-> TRUE] : n \in ReversedCounts}
    \cup
    UNION {{[n |-> n, data |-> d, probe |-> FALSE] : d \in [1..n -> KeyPatterns]}
           : n \in 1..MaxSortKeys}

GpuInit ==
    /\ SorterInit /\ BuffersIdle
    /\ run \in SortRuns
    /\ tpc = "start"
    /\ mem = <<>> /\ queue = <<>> /\ accesses = <<>>
    /\ xfer = [uploaded |-> "", downloaded |-> ""]
    /\ sorted = <<>>

GpuNext ==
    \/ TestSortCreate
    \/ TestSortUpload
    \/ TestSortRecord
    \/ TestSortSubmit
    \/ DeviceExecute
    \/ TestSortDownload
    \/ TestSortCompare

SpecGpu == GpuInit /\ [][GpuNext]_vars

(***************************************************************************)
(* Properties of GPURSSorter::new (SpecNew).                               *)
(***************************************************************************)
Terminated == pc \in {"returned", "panicked"}

PassingWidths == {w \in Widths : device[w]}

LargestPassing == CHOOSE w \in PassingWidths : \A v \in PassingWidths : v <= w

\* The probe passes exactly for the widths up to wstar.
ThresholdDevice(wstar) == \A w \in Widths : device[w] <=> (w <= wstar)

\* The passing widths are a non-empty contiguous run of the ladder.
ContiguousRun ==
    \E lo, hi \in 1..Len(sizes) :
        lo <= hi /\ PassingWidths = {sizes[k] : k \in lo..hi}

\* C1: for every threshold wstar of the ladder, when the probe passes exactly
\* for the widths <= wstar, new ends by returning a sorter of subgroup_size
\* wstar.
C1_SelectsThreshold ==
    \A wstar \in Widths :
        (ThresholdDevice(wstar) /\ Terminated)
            => (pc = "returned" /\ cur_sorter.subgroup_size = wstar)

\* C2: whenever the passing widths are a non-empty contiguous run of the
\* ladder, new ends by returning a sorter of the largest passing width.
C2_LargestWorkingWidth ==
    (ContiguousRun /\ Terminated)
        => (pc = "returned" /\ cur_sorter.subgroup_size = LargestPassing)

\* C3: when the probe fails for every width of the ladder, new never returns
\* a sorter: it keeps running until it panics, either at the range check with
\* the index outside [0, 5) or, with overflow checks, at the decrement of
\* index 0 that would leave the range.
C3_AllFailNeverReturns ==
    (PassingWidths = {}) =>
        /\ pc # "returned"
        /\ ~Terminated => ENABLED NewNext
        /\ pc = "panicked" =>
              \/ panic = panic_no_size /\ ~(cur_size \in 0..(Len(sizes) - 1))
              \/ panic = panic_overflow /\ overflow_checks /\ cur_size = 0

C3_Witness ==
    /\ PassingWidths = {}
    /\ pc = "panicked"
    /\ probes = <<<<32, FALSE>>, <<16, FALSE>>, <<1, FALSE>>>>

(***************************************************************************)
(* Properties of the size calculator (SpecSizes).                          *)
(***************************************************************************)
\* C9: for every N >= 1 the calculator returns block sizes 3840, block
\* counts ceil(N / 3840) and padded counts equal to the least multiple of
\* 3840 that is >= N, so count_ru_histo >= count_ru_scatter >= N and
\* count_ru_histo - N < 3840.
C9_SizeCalculator ==
    (sizes_ret # <<>>) =>
        LET N == keysize_arg
            scatter_block_kvs == sizes_ret[1]
            scatter_blocks_ru == sizes_ret[2]
            count_ru_scatter  == sizes_ret[3]
            histo_block_kvs   == sizes_ret[4]
            histo_blocks_ru   == sizes_ret[5]
            count_ru_histo    == sizes_ret[6]
        IN  /\ scatter_block_kvs = 3840 /\ histo_block_kvs = 3840
            /\ scatter_blocks_ru = histo_blocks_ru
            /\ (scatter_blocks_ru - 1) * 3840 < N /\ N <= scatter_blocks_ru * 3840
            /\ count_ru_histo = count_ru_scatter
            /\ count_ru_scatter % 3840 = 0
            /\ count_ru_histo >= count_ru_scatter /\ count_ru_scatter >= N
            /\ count_ru_histo - N < 3840

C9_Witness ==
    /\ keysize_arg = 3841
    /\ sizes_ret = <<3840, 2, 7680, 3840, 2, 7680>>

(***************************************************************************)
(* Properties of the public interface (SpecBuffers, SpecRecord).           *)
(***************************************************************************)
CeilDiv(a, b) == (a + b - 1) \div b

\* The bytes of a keyval buffer padded for N keys.
PaddedBytes(N) == CeilDiv(N, 3840) * 3840 * 4

\* The passes and the dispatches the last call added to the encoder.
AddedPasses == SubSeq(encoder, Len(before.encoder) + 1, Len(encoder))

KeepsRecorded ==
    /\ Len(encoder) >= Len(before.encoder)
    /\ SubSeq(encoder, 1, Len(before.encoder)) = before.encoder

Pipelines(ds) == [k \in 1..Len(ds) |-> ds[k].pipeline]

\* C4: record_sort appends exactly seven dispatches, in the order zero,
\* histogram, prefix, even, odd, even, odd, and nothing else; what the
\* encoder held before stays in front of them.
C4_SortDispatchOrder ==
    (last.op = "record_sort") =>
        /\ last.ok
        /\ KeepsRecorded
        /\ Pipelines(Dispatches(AddedPasses)) =
              << "zero_histograms", "calculate_histogram", "prefix_histogram",
                 "scatter_even", "scatter_odd", "scatter_even", "scatter_odd" >>

C4_Witness ==
    /\ last.op = "record_sort"
    /\ last.keysize = 3841
    /\ before.encoder # <<>>
    /\ Len(Dispatches(encoder)) = Len(Dispatches(before.encoder)) + 7

\* C7: create_bind_group succeeds exactly when both keyval buffers have the
\* padded size of N; when it fails, no buffer and no bind group has been
\* created; buffers that create_keyval_buffers made for the same N are
\* accepted; and every recorded pass binds a pair of the padded size that its
\* uniform states.
C7_KeyvalSizeCheck ==
    /\ (last.op = "create_bind_group") =>
          LET want == PaddedBytes(last.keysize)
          IN  /\ last.ok <=> (last.a.size = want /\ last.b.size = want)
              /\ ~last.ok => /\ panic = panic_not_padded
                             /\ created = before.created
                             /\ bind_group = before.bind_group
              /\ last.ok => /\ created.buffers = before.created.buffers + 1
                            /\ created.bind_groups = before.created.bind_groups + 1
                            /\ bind_group.binding2 = last.a
                            /\ bind_group.binding3 = last.b
              /\ (last.a.made_for = last.keysize /\ last.b.made_for = last.keysize)
                    => last.ok
    /\ \A k \in 1..Len(encoder) :
          LET bg == encoder[k].bind_group
          IN  /\ bg.binding2.size = bg.binding0.padded_size * 4
              /\ bg.binding3.size = bg.binding0.padded_size * 4

C7_Witness ==
    /\ last.op = "create_bind_group"
    /\ ~last.ok
    /\ last.a.size = PaddedBytes(last.keysize)
    /\ last.b.size # PaddedBytes(last.keysize)
    /\ before.bind_group # <<>>

\* C8: record_scatter_keys with passes # 4 panics and leaves the encoder as
\* it was (no compute pass begun); with passes = 4 it adds one pass holding
\* exactly four scatter dispatches.
C8_PassCountAssertion ==
    (last.op = "record_scatter_keys") =>
        IF last.passes # 4
        THEN /\ ~last.ok /\ panic = panic_passes
             /\ encoder = before.encoder
        ELSE /\ last.ok
             /\ KeepsRecorded
             /\ Len(AddedPasses) = 1
             /\ Pipelines(Dispatches(AddedPasses)) =
                   <<"scatter_even", "scatter_odd", "scatter_even", "scatter_odd">>

C8_Witness ==
    /\ last.op = "record_scatter_keys"
    /\ last.passes = 3
    /\ panic = panic_passes
    /\ before.encoder # <<>>

\* C10: the zero_histograms dispatch recorded for N keys has
\* W = ceil(M / 256) workgroups, M = (4 + scatter_blocks_ru - 1) * 256
\* + max(0, count_ru_histo - N); W * 256 covers the words of the scratch
\* buffer plus the padding slots, and W * 256 - M < 256.
C10_ZeroPassCoverage ==
    (last.op \in {"record_calculate_histogram", "record_sort"}) =>
        LET N      == last.keysize
            blocks == CeilDiv(N, 3840)
            pad    == IF blocks * 3840 > N THEN blocks * 3840 - N ELSE 0
            M      == (4 + blocks - 1) * 256 + pad
            zero   == AddedPasses[1].dispatches[1]
            W      == zero.x
            words  == create_internal_mem_buffer(N).size \div 4
        IN  /\ zero.pipeline = "zero_histograms"
            /\ W = CeilDiv(M, 256)
            /\ W * 256 >= words + pad
            /\ W * 256 - M < 256

(***************************************************************************)
(* Properties of a sort run on the device (SpecGpu).                       *)
(***************************************************************************)
\* The order of non-negative f32 keys is the order of their bit patterns:
\* compare from the most significant byte down.
KeyLeq(a, b) ==
    \/ a[4] < b[4]
    \/ a[4] = b[4] /\ a[3] < b[3]
    \/ a[4] = b[4] /\ a[3] = b[3] /\ a[2] < b[2]
    \/ a[4] = b[4] /\ a[3] = b[3] /\ a[2] = b[2] /\ a[1] <= b[1]

Occurrences(seq, key) ==
    LET Is(x) == x = key
    IN  Len(SelectSeq(seq, Is))

\* got holds the keys of want, each as often as want does.
SameMultiset(got, want) ==
    /\ Len(got) = Len(want)
    /\ \A i \in 1..Len(want) : Occurrences(got, want[i]) = Occurrences(want, want[i])

NonDecreasing(seq) == \A i \in 1..(Len(seq) - 1) : KeyLeq(seq[i], seq[i + 1])

ScattersDone == Len(accesses) = rs_keyval_size

\* C5: every scatter pass the device executes reads the buffer the pass
\* before it wrote, the first one reads keyval A, the buffer test_sort
\* uploaded to; after the fourth pass the last written buffer is keyval A,
\* it holds the keys of the input in its first n slots, and it is the buffer
\* test_sort reads back.
C5_PingPongOutputLocation ==
    /\ \A k \in 1..Len(accesses) :
          /\ accesses[k].reads # accesses[k].writes
          /\ accesses[k].reads = (IF k = 1 THEN "buffer_a" ELSE accesses[k - 1].writes)
    /\ accesses # <<>> => xfer.uploaded = accesses[1].reads
    /\ ScattersDone =>
          /\ accesses[rs_keyval_size].writes = "buffer_a"
          /\ xfer.uploaded = "buffer_a"
          /\ SameMultiset(SubSeq(mem.buffer_a, 1, run.n), run.data)
    /\ xfer.downloaded # "" =>
          /\ ScattersDone
          /\ xfer.downloaded = accesses[rs_keyval_size].writes

\* A run of more than one key whose four scatter passes have executed and
\* whose result has been read back.
C5_Witness ==
    /\ ScattersDone
    /\ xfer.downloaded = "buffer_a"
    /\ run.n > 1
    /\ accesses[2].pipeline = "scatter_odd"
    /\ mem.buffer_b # mem.buffer_a

\* C6: once the recorded sort has executed and keyval A is read back, its first
\* n keys are the keys of the input, each as often as in the input, in
\* non-decreasing order; the reversed input n-1, ..., 0 comes back as
\* 0, ..., n-1 and test_sort returns true on it.
C6_SortedPermutation ==
    /\ tpc \in {"downloaded", "compared"} =>
          /\ SameMultiset(SubSeq(sorted, 1, run.n), run.data)
          /\ NonDecreasing(SubSeq(sorted, 1, run.n))
          /\ run.probe => SubSeq(sorted, 1, run.n) = sorted_data(run.n)
    /\ tpc = "compared" => sort_success

\* The probe itself: 512 reversed keys sorted and compared; and an input
\* that is not already in order.
C6_Witness ==
    /\ tpc = "compared"
    /\ run.n = 512
    /\ run.data[1] = f32_key(511)
    /\ sorted[1] = f32_key(0)
    /\ sorted[512] = f32_key(511)
    /\ sort_success

(***************************************************************************)
(* Properties of the dispatch sizes (SpecGpu, SpecRecord).                 *)
(***************************************************************************)
\* The dispatches of ds that run one of the pipelines ps.
DispatchesOf(ds, ps) ==
    LET Is(d) == d.pipeline \in ps
    IN  SelectSeq(ds, Is)

ScatterPipelines == {"scatter_even", "scatter_odd"}

\* C11: the probe of test_sort, n = 512, dispatches at least 2 workgroups in
\* each of its scatter passes.
C11_ProbeScatterWorkgroups ==
    (run.probe /\ run.n = 512 /\ tpc \in {"recorded", "submitted", "downloaded", "compared"}) =>
        LET scatters == DispatchesOf(Dispatches(encoder), ScatterPipelines)
        IN  /\ Len(scatters) = 4
            /\ \A k \in 1..Len(scatters) : scatters[k].x >= 2

\* C12: every prefix_histogram dispatch on the encoder, recorded by
\* record_sort or by record_prefix_histogram with any passes argument, has
\* exactly 4 workgroups.
C12_PrefixDispatchSize ==
    LET prefixes == DispatchesOf(Dispatches(encoder), {"prefix_histogram"})
    IN  \A k \in 1..Len(prefixes) : prefixes[k].x = 4

\* C13: record_sort for N keys records the calculate_histogram dispatch and
\* each of the four scatter dispatches with ceil(N / 3840) workgroups, so
\* that each covers the count_ru_histo padded elements of the keyval
\* buffers made for N.
C13_SortDispatchSizes ==
    (last.op = "record_sort") =>
        LET N        == last.keysize
            blocks   == CeilDiv(N, 3840)
            added    == Dispatches(AddedPasses)
            histos   == DispatchesOf(added, {"calculate_histogram"})
            scatters == DispatchesOf(added, ScatterPipelines)
            padded   == create_keyval_buffers(N)[1].size \div size_of_f32
        IN  /\ Len(histos) = 1
            /\ histos[1].x = blocks
            /\ Len(scatters) = 4
            /\ \A k \in 1..4 : scatters[k].x = blocks
            /\ \A k \in 1..4 : scatters[k].x * 3840 = histos[1].x * 3840
            /\ histos[1].x * 3840 = padded
            /\ padded = get_scatter_histogram_sizes(N)[6]
            /\ padded >= N

\* A sort of more than one block recorded behind an earlier pass.
C13_Witness ==
    /\ last.op = "record_sort"
    /\ last.keysize = 3841
    /\ before.encoder # <<>>
    /\ DispatchesOf(Dispatches(AddedPasses), ScatterPipelines)[4].x = 2
    /\ DispatchesOf(Dispatches(AddedPasses), {"calculate_histogram"})[1].x = 2

(***************************************************************************)
(* Properties of the calibration loop (SpecNew, SpecNewFair).              *)
(***************************************************************************)
\* The steps of the loop that every build takes alike: the first probe, the
\* one change of s, the Increasing arm and the passing probe of the
\* Decreasing arm.
CalibratorCommonSteps ==
    /\ (probes = <<>> /\ probes' # <<>>) =>
          (s = "init" /\ cur_size = 2 /\ probes'[1][1] = 32)
    /\ (s = "init" /\ pc = "match") =>
          /\ s' = (IF sort_success THEN "increasing" ELSE "decreasing")
          /\ cur_size' = (IF sort_success THEN cur_size + 1 ELSE cur_size - 1)
    /\ (s = "init" /\ pc # "match") => s' = s
    /\ (s # "init") => s' = s
    /\ (pc # "match") => cur_size' = cur_size
    /\ (s = "increasing" /\ pc = "match") =>
          IF sort_success
          THEN cur_size' = cur_size + 1 /\ pc' = "loop"
          ELSE /\ pc' = "returned"
               /\ cur_sorter'.subgroup_size = sizes_at(cur_size - 1)
    /\ (s = "decreasing" /\ pc = "match" /\ sort_success) =>
          /\ pc' = "returned"
          /\ cur_size' = cur_size
          /\ cur_sorter'.subgroup_size = sizes_at(cur_size)
          /\ cur_sorter' = cur_sorter

ProbedWidths == {probes[k][1] : k \in 1..Len(probes)}

\* Where the code indexes the ladder: sizes[cur_size] on lines 65 and 66,
\* sizes[cur_size - 1] on line 74.
IndexesInRange ==
    /\ (pc = "probe") => cur_size \in 0..(sizes_len - 1)
    /\ (pc = "match" /\ s = "increasing" /\ ~sort_success) =>
          (cur_size - 1) \in 0..(sizes_len - 1)

\* C15: for every assignment of outcomes to the five widths the loop of new
\* ends, by returning a sorter or by a panic, after at most 3 probes; it
\* probes no width twice and never indexes the ladder outside [0, 5).
C15_CalibrationTerminates ==
    /\ [](/\ Len(probes) <= 3
          /\ Cardinality(ProbedWidths) = Len(probes)
          /\ IndexesInRange
          /\ Terminated => Len(probes) \in 2..3)
    /\ <>Terminated

\* Every width from 32 up passes: three probes, then the index is 5 and the
\* range check fails the construction.
C15_Witness ==
    /\ pc = "panicked"
    /\ panic = panic_no_size
    /\ probes = <<<<32, TRUE>>, <<64, TRUE>>, <<128, TRUE>>>>
    /\ cur_size = 5

Probed(w, ok) == \E k \in 1..Len(probes) : probes[k] = <<w, ok>>

\* C16: whenever new returns, whatever the outcomes, the width of the
\* returned sorter is a ladder width that was probed in this construction
\* and passed, and never one that was probed and failed; if s is increasing
\* the next larger ladder width was probed and failed.
C16_ReturnedWidthVerified ==
    (pc = "returned") =>
        LET w == cur_sorter.subgroup_size
        IN  /\ w \in Widths
            /\ Probed(w, TRUE)
            /\ ~Probed(w, FALSE)
            /\ device[w]
            /\ s \in {"increasing", "decreasing"}
            /\ (s = "increasing") =>
                  \E i \in 0..(sizes_len - 2) :
                      sizes_at(i) = w /\ Probed(sizes_at(i + 1), FALSE)

\* A return by roll-back on a device whose passing widths are no interval.
C16_Witness ==
    /\ pc = "returned"
    /\ s = "increasing"
    /\ probes = <<<<32, TRUE>>, <<64, TRUE>>, <<128, FALSE>>>>
    /\ cur_sorter.subgroup_size = 64
    /\ ~device[16] /\ device[1]

====
